---- MODULE Spec2Model ----
(***************************************************************************)
(* A model of the PICASO server (src/unnamed/part_000, the version of      *)
(* src/server.js that also holds the Printful fulfillment code).           *)
(*                                                                         *)
(* Every route handler is an async function: it runs from the arrival of   *)
(* the request to its first await, and from the answer of an external      *)
(* capability (OpenAI, Stripe, Printful) to its next await or to its       *)
(* response.  The model has one action for each of these steps.  Requests  *)
(* are handled in slots, so that the steps of several requests interleave  *)
(* at the awaits, as they do on the Node event loop.                       *)
(*                                                                         *)
(* The page's checkout handler (src/script.js) is modelled the same way,   *)
(* on the page's own variables, under its own specification SpecPage.      *)
(***************************************************************************)
EXTENDS Integers, Sequences, FiniteSets, TLC

\* ------------------------------------------------------------------ bounds
MaxSlots == 1         \* requests in flight at the same time
MaxRequests == 2      \* requests received in one run
MaxSessions == 1      \* checkout sessions the payment capability creates
MaxInputLen == 1      \* characters in the page's prompt input
MaxGenerations == 2   \* generation requests the page sends in one run
MaxPicks == 1         \* entries of a list that a random choice picks from

Slots == 1..MaxSlots

\* ------------------------------------------------------- JavaScript values
\* Strings of the program are TLA+ strings; the two tokens below stand for
\* the JavaScript values undefined and null where a string may be absent.
Undefined == "<undefined>"
Null == "<null>"
\* An object that is absent (undefined) where an object is expected.
NoObj == [absent |-> TRUE]

\* JavaScript truthiness of a string-or-absent value: !v
Falsy(v) == v \in {Undefined, Null, ""}

\* a || b
Or(a, b) == IF Falsy(a) THEN b ELSE a

\* `${v}` in a template literal
Interpolate(v) ==
    IF v = Undefined THEN "undefined" ELSE IF v = Null THEN "null" ELSE v

\* obj?.field for an object that may be absent
Opt(obj, field) == IF obj = NoObj THEN Undefined ELSE obj[field]

\* obj?.inner?.field for objects that may be absent
Opt2(obj, inner, field) ==
    IF obj = NoObj THEN Undefined ELSE Opt(obj[inner], field)

\* ------------------------------------------------------------- responses
NoResp == [sent |-> FALSE]
Json(status, body) == [sent |-> TRUE, status |-> status, type |-> "json", body |-> body]
Text(status, body) == [sent |-> TRUE, status |-> status, type |-> "text", body |-> body]
Html(status, body) == [sent |-> TRUE, status |-> status, type |-> "html", body |-> body]
Redirect(loc) == [sent |-> TRUE, status |-> 302, type |-> "redirect", body |-> loc]

\* An external call as the request's log keeps it: the endpoint, what was sent
\* and, once the capability has answered, its answer.
Pending == [pending |-> TRUE]
Call(api, arg) == [api |-> api, arg |-> arg, out |-> Pending]

\* The log once the call the handler awaits (its last one) is answered by out.
Answered(log, out) == [log EXCEPT ![Len(log)].out = out]

VARIABLES
    kind,       \* kind[r]: the route the request in slot r is for, or "none"
    pc,         \* pc[r]: "idle", the await the handler is suspended at, or "done"
    input,      \* input[r]: the request as the client sent it
    locals,     \* locals[r]: the handler's local variables that outlive an await
    calls,      \* calls[r]: the external calls the handler has issued, in order
    resp,       \* resp[r]: the response sent, or NoResp
    sessions,   \* the payment capability's checkout sessions: id -> metadata
    supplied,   \* history: id -> the (imageUrl, prompt) the creating request held
    orders,     \* history: the external_id of every order-creation call, in order
    notified,   \* history: session ids of the completed notifications handled
    nfiles,     \* files the fulfillment capability has ingested
    nreq,       \* requests received so far
    \* the page (src/script.js)
    featuredImage,  \* the .featured-image element: [src]
    promptInput,    \* the #prompt-input element: [value], a sequence of characters
    checkoutBtn,    \* the #stripe-checkout-btn element: [innerHTML, disabled]
    checkoutPc,     \* handleStripeCheckout: "idle", "await_fetch" or "navigated"
    checkoutLocals, \* its locals that outlive the await
    location,       \* window.location.href
    alerted,        \* history: the messages handleStripeCheckout has alerted
    lastClick,      \* history: the last click on the checkout button
    createBtn,      \* the .create-btn element: [textContent, disabled]
    shuffleBtn,     \* the .shuffle-btn element: [textContent, disabled]
    creates,        \* the invocations of handleCreate that await their response
    timers,         \* the reset timers of handleCreate, in the order they fire
    shuffling,      \* the shuffle handler awaiting its response, or NoObj
    gallery,        \* the items of .gallery, first to last
    generated,      \* history: the (imageUrl, prompt) of every successful generation
    nfetch          \* generation requests the page has sent

serverVars == <<kind, pc, input, locals, calls, resp, sessions, supplied, orders, notified, nfiles, nreq>>
studioVars == <<createBtn, shuffleBtn, creates, timers, shuffling, gallery, generated, nfetch>>
pageVars == <<featuredImage, promptInput, checkoutBtn, checkoutPc, checkoutLocals, location,
              alerted, lastClick, studioVars>>
vars == <<serverVars, pageVars>>
extVars == <<sessions, supplied, orders, notified, nfiles>>

InFlight(r) == pc[r] \notin {"idle", "done"}

\* A request is taken into the lowest slot that holds no request in flight.
Free(r) ==
    /\ ~InFlight(r)
    /\ \A q \in Slots : q < r => InFlight(q)
    /\ nreq < MaxRequests

\* The record of a request that was answered is history, not state of the
\* server: it is kept until the next request starts or the next one is answered.
Kept(f, r, v, none) ==
    [q \in Slots |-> IF q = r THEN v ELSE IF pc[q] = "done" THEN none ELSE f[q]]

\* The request in slot r starts: its handler's synchronous prefix has run.
Start(r, k, in, nextPc, loc, issued, response) ==
    /\ kind' = Kept(kind, r, k, "none")
    /\ input' = Kept(input, r, in, NoObj)
    /\ pc' = Kept(pc, r, nextPc, "idle")
    /\ locals' = Kept(locals, r, loc, [none |-> TRUE])
    /\ calls' = Kept(calls, r, issued, <<>>)
    /\ resp' = Kept(resp, r, response, NoResp)
    /\ nreq' = nreq + 1
    /\ UNCHANGED pageVars

\* The handler in slot r resumes with the answer out of the call it awaits
\* and runs to its next await (nextPc) or to its response.
Resume(r, out, nextPc, loc, issued, response) ==
    IF nextPc = "done"
    THEN /\ kind' = Kept(kind, r, kind[r], "none")
         /\ input' = Kept(input, r, input[r], NoObj)
         /\ pc' = Kept(pc, r, nextPc, "idle")
         /\ locals' = Kept(locals, r, loc, [none |-> TRUE])
         /\ calls' = Kept(calls, r, Answered(calls[r], out) \o issued, <<>>)
         /\ resp' = Kept(resp, r, response, NoResp)
         /\ UNCHANGED <<nreq, pageVars>>
    ELSE /\ pc' = [pc EXCEPT ![r] = nextPc]
         /\ locals' = [locals EXCEPT ![r] = loc]
         /\ calls' = [calls EXCEPT ![r] = Answered(calls[r], out) \o issued]
         /\ resp' = [resp EXCEPT ![r] = response]
         /\ UNCHANGED <<kind, input, nreq, pageVars>>

\* ------------------------------------------------- image synthesis (OpenAI)
\* The outcomes of openai.images.generate: an image URL, or an error whose
\* status is 429 (rate limit), 400 (invalid input) or another one.
GeneratedUrls == {"u1"}
OpenAIErrors == {429, 400, 500}
OpenAIOutcomes ==
    [ok : {TRUE}, url : GeneratedUrls] \cup [ok : {FALSE}, status : OpenAIErrors]

\* ------------------------------------------------ POST /api/generate-image
GeneratePrompts == {Undefined, "", " ", "fox"}

\* The catch block of the generate-image handler.
GenerateImageCatch(error) ==
    IF error.status = 429
    THEN Json(429, [error |-> "Rate limit exceeded. Please try again later."])
    ELSE IF error.status = 400
         THEN Json(400, [error |-> "Invalid prompt. Please try a different description."])
         ELSE Json(500, [error |-> "Failed to generate image. Please try again."])

\* The guard of the generate-image handler: if (!prompt)
GenerateImageRejects(prompt) == Falsy(prompt)

GenerateImage(r) ==
    \E prompt \in GeneratePrompts :
        /\ Free(r)
        /\ IF GenerateImageRejects(prompt)
           THEN Start(r, "generate-image", [prompt |-> prompt], "done", [none |-> TRUE],
                      <<>>, Json(400, [error |-> "Prompt is required"]))
           ELSE Start(r, "generate-image", [prompt |-> prompt], "await_generate",
                      [none |-> TRUE],
                      <<Call("openai.images.generate", [prompt |-> prompt])>>, NoResp)
        /\ UNCHANGED extVars

GenerateImageReply(r) ==
    /\ kind[r] = "generate-image" /\ pc[r] = "await_generate"
    /\ \E out \in OpenAIOutcomes :
        /\ IF out.ok
           THEN Resume(r, out, "done", locals[r], <<>>,
                       Json(200, [success |-> TRUE, imageUrl |-> out.url,
                                  prompt |-> input[r].prompt]))
           ELSE Resume(r, out, "done", locals[r], <<>>, GenerateImageCatch(out))
        /\ UNCHANGED extVars

\* -------------------------------------------- POST /api/generate-variation
BasePrompts == {"fox"}

variations ==
    << "with different lighting", "from a different angle", "with more detail",
       "in a different composition", "with varied colors", "with different mood" >>

\* (mutant) the clause appended without the separating comma.
EnhancedPrompt_NoComma(basePrompt, i) == Interpolate(basePrompt) \o " " \o variations[i]

\* `${basePrompt}, ${randomVariation}`
EnhancedPrompt(basePrompt, i) == Interpolate(basePrompt) \o ", " \o variations[i]

\* The catch block of the generate-variation handler.
GenerateVariationCatch(error) == Json(500, [error |-> "Failed to generate variation"])

\* Math.floor(Math.random() * variations.length) is any index of the array.
GenerateVariation(r) ==
    \E basePrompt \in BasePrompts, i \in 1..Len(variations) :
        /\ Free(r)
        /\ Start(r, "generate-variation", [basePrompt |-> basePrompt], "await_generate",
                 [enhancedPrompt |-> EnhancedPrompt(basePrompt, i)],
                 <<Call("openai.images.generate",
                        [prompt |-> EnhancedPrompt(basePrompt, i)])>>, NoResp)
        /\ UNCHANGED extVars

GenerateVariationReply(r) ==
    /\ kind[r] = "generate-variation" /\ pc[r] = "await_generate"
    /\ \E out \in OpenAIOutcomes :
        /\ IF out.ok
           THEN Resume(r, out, "done", locals[r], <<>>,
                       Json(200, [success |-> TRUE, imageUrl |-> out.url,
                                  prompt |-> locals[r].enhancedPrompt]))
           ELSE Resume(r, out, "done", locals[r], <<>>, GenerateVariationCatch(out))
        /\ UNCHANGED extVars

\* ------------------------------------------- the payment capability (Stripe)
SessionNames == <<"cs_1", "cs_2", "cs_3", "cs_4">>
SessionIds == {SessionNames[i] : i \in 1..MaxSessions}

\* Stripe keeps the metadata of a session as it was sent, except that a key
\* sent with an empty or absent value is not stored.
StripeStored(metadata) ==
    [prompt |-> IF Falsy(metadata.prompt) THEN Undefined ELSE metadata.prompt,
     imageUrl |-> IF Falsy(metadata.imageUrl) THEN Undefined ELSE metadata.imageUrl]

Exists(id) == id \in DOMAIN sessions

StripeErrors == {"Invalid URL", "An error occurred with our connection to Stripe"}

\* stripe.checkout.sessions.create: a new session, or an error.
CreateOutcomes ==
    {[ok |-> TRUE, id |-> SessionNames[Cardinality(DOMAIN sessions) + 1]] :
        x \in IF Cardinality(DOMAIN sessions) < MaxSessions THEN {1} ELSE {}}
    \cup [ok : {FALSE}, message : StripeErrors]

\* A session that exists has been paid, or not (yet).
PaymentStatuses == {"paid", "unpaid"}

\* stripe.checkout.sessions.retrieve(id): the stored session, or an error (always
\* an error for an id that is absent or names no session).
RetrieveOutcomes(id) ==
    {[ok |-> TRUE, id |-> id, metadata |-> sessions[id], payment_status |-> p] :
        p \in IF Exists(id) THEN PaymentStatuses ELSE {}}
    \cup [ok : {FALSE}, message : {"No such checkout.session"}]

\* ---------------------------------------- POST /api/create-checkout-session
\* The bodies of the requests: complete ones, one whose imageUrl is empty and
\* one that has no prompt.
CheckoutBodies ==
    {[imageUrl |-> "u1", prompt |-> "fox"], [imageUrl |-> "u2", prompt |-> "cat"],
     [imageUrl |-> "", prompt |-> "fox"], [imageUrl |-> "u1", prompt |-> Undefined]}
UnitAmount == 4999

\* (mutant) the two metadata values under each other's key.
CheckoutMetadata_Swapped(imageUrl, prompt) == [prompt |-> imageUrl, imageUrl |-> prompt]

\* The metadata the handler attaches to the session it asks for.
CheckoutMetadata(imageUrl, prompt) == [prompt |-> prompt, imageUrl |-> imageUrl]

\* The handler reads imageUrl and prompt from the body and asks for the session;
\* no condition on them stands between the two.
CreateCheckoutSession(r) ==
    \E body \in CheckoutBodies :
        /\ Free(r)
        /\ Start(r, "create-checkout-session", body, "await_create", [none |-> TRUE],
                 <<Call("stripe.checkout.sessions.create",
                        [images |-> body.imageUrl, unit_amount |-> UnitAmount,
                         metadata |-> CheckoutMetadata(body.imageUrl, body.prompt)])>>,
                 NoResp)
        /\ UNCHANGED extVars

CreateCheckoutSessionReply(r) ==
    /\ kind[r] = "create-checkout-session" /\ pc[r] = "await_create"
    /\ \E out \in CreateOutcomes :
        /\ IF out.ok
           THEN /\ Resume(r, out, "done", locals[r], <<>>,
                          Json(200, [url |-> "https://checkout.stripe.com/" \o out.id]))
                /\ sessions' = (out.id :> StripeStored(calls[r][1].arg.metadata)) @@ sessions
                /\ supplied' = (out.id :> input[r]) @@ supplied
           ELSE /\ Resume(r, out, "done", locals[r], <<>>, Json(500, [error |-> out.message]))
                /\ UNCHANGED <<sessions, supplied>>
        /\ UNCHANGED <<orders, notified, nfiles>>

\* ------------------------------------------------------------ GET /success
QuerySessionIds == SessionIds \cup {Undefined}

\* The confirmation page, by the values the template interpolates.
ConfirmationPage(prompt, imageUrl, sessionId) ==
    Html(200, [page |-> "confirmation", prompt |-> Interpolate(prompt),
               imageUrl |-> Interpolate(imageUrl), orderId |-> Interpolate(sessionId)])

\* (mutant) the catch block answers with the error.
SuccessCatch_Error(error) == Json(500, [error |-> error.message])

\* The catch block of the success handler.
SuccessCatch(error) == Redirect("/")

Success(r) ==
    \E sessionId \in QuerySessionIds :
        /\ Free(r)
        /\ Start(r, "success", [session_id |-> sessionId], "await_retrieve", [none |-> TRUE],
                 <<Call("stripe.checkout.sessions.retrieve", [id |-> sessionId])>>, NoResp)
        /\ UNCHANGED extVars

SuccessReply(r) ==
    /\ kind[r] = "success" /\ pc[r] = "await_retrieve"
    /\ \E out \in RetrieveOutcomes(input[r].session_id) :
        /\ IF out.ok
           THEN Resume(r, out, "done", locals[r], <<>>,
                       ConfirmationPage(out.metadata.prompt, out.metadata.imageUrl,
                                        input[r].session_id))
           ELSE Resume(r, out, "done", locals[r], <<>>, SuccessCatch(out))
        /\ UNCHANGED extVars

\* ------------------------------------- the fulfillment capability (Printful)
\* POST /files answers with the id of the file it ingested, or fails.
UploadOutcomes == {[ok |-> TRUE, id |-> nfiles + 1], [ok |-> FALSE, message |-> "upload failed"]}

\* POST /orders answers with the order it created, or fails.
OrderOutcomes ==
    {[ok |-> TRUE, id |-> Len(orders)], [ok |-> FALSE, message |-> "order failed"]}

VariantId == 10309

\* The recipient of the order: each field of customerInfo, or its placeholder.
\* (mutant) the placeholders are used as a block: one missing field replaces
\* the whole recipient.
Recipient_AllOrNothing(customerInfo) ==
    IF \E f \in {"name", "address1", "city", "state", "country", "zip"} : Falsy(customerInfo[f])
    THEN [name |-> "PICASO Customer", address1 |-> "123 Main St", city |-> "New York",
          state_code |-> "NY", country_code |-> "US", zip |-> "10001"]
    ELSE [name |-> customerInfo.name, address1 |-> customerInfo.address1,
          city |-> customerInfo.city, state_code |-> customerInfo.state,
          country_code |-> customerInfo.country, zip |-> customerInfo.zip]

Recipient(customerInfo) ==
    [name |-> Or(customerInfo.name, "PICASO Customer"),
     address1 |-> Or(customerInfo.address1, "123 Main St"),
     city |-> Or(customerInfo.city, "New York"),
     state_code |-> Or(customerInfo.state, "NY"),
     country_code |-> Or(customerInfo.country, "US"),
     zip |-> Or(customerInfo.zip, "10001")]

\* (mutant) the order carries no correlation key.
OrderData_NoExternalId(fileId, customerInfo, sessionId) ==
    [recipient |-> Recipient(customerInfo),
     items |-> <<[variant_id |-> VariantId, quantity |-> 1,
                  files |-> <<[id |-> fileId, type |-> "default"]>>]>>,
     external_id |-> Undefined]

\* orderData of createPrintfulOrder.
OrderData(fileId, customerInfo, sessionId) ==
    [recipient |-> Recipient(customerInfo),
     items |-> <<[variant_id |-> VariantId, quantity |-> 1,
                  files |-> <<[id |-> fileId, type |-> "default"]>>]>>,
     external_id |-> sessionId]

\* (mutant) the upload is asked for without the image's URL.
UploadCall_NoUrl(imageUrl) == Call("printful.files", [type |-> "default", url |-> Undefined])

\* The first call of createPrintfulOrder(imageUrl, prompt, customerInfo, sessionId).
UploadCall(imageUrl) == Call("printful.files", [type |-> "default", url |-> imageUrl])

\* (mutant) the webhook handler lets the error reach its outer catch block.
WebhookFulfillmentFailed_Rethrown(error) == Text(400, "Webhook Error")

\* What the caller of createPrintfulOrder does with the error it rethrows:
\* the webhook handler logs it and goes on to res.json({received: true}).
WebhookFulfillmentFailed(error) == Json(200, [received |-> TRUE])

\* (mutant) the manual trigger swallows the error as the webhook handler does.
ManualFulfillmentFailed_Swallowed(error) == Json(200, [received |-> TRUE])

\* ... and the manual trigger answers 500 with the error's message.
ManualFulfillmentFailed(error) == Json(500, [error |-> error.message])

\* What the caller does with the order createPrintfulOrder returns.
WebhookFulfilled(order) == Json(200, [received |-> TRUE])
ManualFulfilled(order) == Json(200, [success |-> TRUE, orderId |-> order.id])

IsFulfilling(r) == kind[r] \in {"webhook", "create-printful-order"}

\* (mutant) a failed upload is tried again.
CreatePrintfulOrderUploaded_Retry(r) ==
    /\ IsFulfilling(r) /\ pc[r] = "await_upload"
    /\ \E out \in UploadOutcomes :
        IF out.ok
        THEN /\ Resume(r, out, "await_order", [locals[r] EXCEPT !.fileId = out.id],
                       <<Call("printful.orders",
                              OrderData(out.id, locals[r].customerInfo, locals[r].sessionId))>>,
                       NoResp)
             /\ nfiles' = nfiles + 1
             /\ orders' = Append(orders, locals[r].sessionId)
             /\ UNCHANGED <<sessions, supplied, notified>>
        ELSE /\ Resume(r, out, "await_upload", locals[r],
                       <<UploadCall(locals[r].imageUrl)>>, NoResp)
             /\ UNCHANGED extVars

\* createPrintfulOrder resumes with the answer of POST /files.
CreatePrintfulOrderUploaded(r) ==
    /\ IsFulfilling(r) /\ pc[r] = "await_upload"
    /\ \E out \in UploadOutcomes :
        IF out.ok
        THEN /\ Resume(r, out, "await_order", [locals[r] EXCEPT !.fileId = out.id],
                       <<Call("printful.orders",
                              OrderData(out.id, locals[r].customerInfo, locals[r].sessionId))>>,
                       NoResp)
             /\ nfiles' = nfiles + 1
             /\ orders' = Append(orders, locals[r].sessionId)
             /\ UNCHANGED <<sessions, supplied, notified>>
        ELSE /\ Resume(r, out, "done", locals[r], <<>>,
                       IF kind[r] = "webhook" THEN WebhookFulfillmentFailed(out)
                                              ELSE ManualFulfillmentFailed(out))
             /\ UNCHANGED extVars

\* createPrintfulOrder resumes with the answer of POST /orders.
CreatePrintfulOrderOrdered(r) ==
    /\ IsFulfilling(r) /\ pc[r] = "await_order"
    /\ \E out \in OrderOutcomes :
        /\ IF out.ok
           THEN Resume(r, out, "done", locals[r], <<>>,
                       IF kind[r] = "webhook" THEN WebhookFulfilled(out)
                                              ELSE ManualFulfilled(out))
           ELSE Resume(r, out, "done", locals[r], <<>>,
                       IF kind[r] = "webhook" THEN WebhookFulfillmentFailed(out)
                                              ELSE ManualFulfillmentFailed(out))
        /\ UNCHANGED extVars

\* ------------------------------------------ POST /api/create-printful-order
TestCustomer ==
    [name |-> "Test Customer", address1 |-> "123 Test Street", city |-> "Test City",
     state |-> "NY", country |-> "US", zip |-> "10001"]

CreatePrintfulOrderRoute(r) ==
    \E sessionId \in QuerySessionIds :
        /\ Free(r)
        /\ Start(r, "create-printful-order", [sessionId |-> sessionId], "await_retrieve",
                 [none |-> TRUE],
                 <<Call("stripe.checkout.sessions.retrieve", [id |-> sessionId])>>, NoResp)
        /\ UNCHANGED extVars

CreatePrintfulOrderRouteRetrieved(r) ==
    /\ kind[r] = "create-printful-order" /\ pc[r] = "await_retrieve"
    /\ \E out \in RetrieveOutcomes(input[r].sessionId) :
        /\ IF out.ok
           THEN Resume(r, out, "await_upload",
                       [imageUrl |-> out.metadata.imageUrl, prompt |-> out.metadata.prompt,
                        customerInfo |-> TestCustomer, sessionId |-> input[r].sessionId,
                        fileId |-> 0],
                       <<UploadCall(out.metadata.imageUrl)>>, NoResp)
           ELSE Resume(r, out, "done", locals[r], <<>>, Json(500, [error |-> out.message]))
        /\ UNCHANGED extVars

\* ---------------------------------------------------- POST /webhook/stripe
\* A body as text: not JSON at all, or the JSON text of a value.  The values
\* are null, an object, and an array that holds one string (the string as the
\* text it spells).
NotJson == [wf |-> FALSE]
JsonText(v) == [wf |-> TRUE, val |-> v]
JNull == [t |-> "null"]
JObject(o) == [t |-> "object", obj |-> o]
JArray(text) == [t |-> "array", elem |-> text]
Buffer(text) == [t |-> "buffer", text |-> text]
EmptyObject == JObject([empty |-> TRUE])

\* The session objects of the notifications.
Metadata1 == [prompt |-> "fox", imageUrl |-> "u1"]
Details1 ==
    [name |-> "Bob", email |-> "bob@x",
     address |-> [line1 |-> "1 Rd", city |-> "", state |-> "CA", country |-> Null,
                  postal_code |-> "94000"]]
\* The shapes of the session a notification carries: a customer's session, a
\* guest's (no customer reference), one without customer details, and one
\* without metadata.
NotifiedSessions ==
    UNION {{[id |-> id, metadata |-> Metadata1, customer |-> "cus_1", customer_details |-> Details1],
            [id |-> id, metadata |-> Metadata1, customer |-> Null, customer_details |-> Details1],
            [id |-> id, metadata |-> Metadata1, customer |-> "cus_1", customer_details |-> NoObj],
            [id |-> id, metadata |-> NoObj, customer |-> "cus_1", customer_details |-> Details1]} :
           id \in SessionIds}

Events ==
    {[type |-> "checkout.session.completed", data |-> [object |-> s]] : s \in NotifiedSessions}
    \cup {[type |-> "payment_intent.succeeded", data |-> NoObj]}

EventTexts == {JsonText(JObject(e)) : e \in Events}
PlainTexts == {NotJson, JsonText(JNull)} \cup EventTexts
RawBodies == PlainTexts \cup {JsonText(JArray(t)) : t \in PlainTexts}

\* The requests: every body as JSON; as plain text (whose body no parser
\* reads) one body that is not JSON and the notifications themselves.
WebhookRequests ==
    [contentType : {"application/json"}, raw : RawBodies]
    \cup [contentType : {"text/plain"}, raw : {NotJson} \cup EventTexts]

\* app.use(express.json()): a request whose content type is JSON is read and
\* parsed (strictly: the text must be that of an object or an array, or the
\* parser answers 400); req.body of any other request is {}.
ExpressJson(contentType, raw) ==
    IF contentType # "application/json"
    THEN [failed |-> FALSE, read |-> FALSE, body |-> EmptyObject]
    ELSE IF raw.wf /\ raw.val.t \in {"object", "array"}
         THEN [failed |-> FALSE, read |-> TRUE, body |-> raw.val]
         ELSE [failed |-> TRUE, read |-> TRUE, body |-> EmptyObject]

\* express.raw({type: 'application/json'}) on the route: a body that was
\* already read is left as it is; otherwise a JSON request's bytes become a
\* Buffer.
ExpressRaw(contentType, raw, req) ==
    IF req.read THEN req.body
    ELSE IF contentType = "application/json" THEN Buffer(raw) ELSE req.body

\* The body the handler finds in req.body.
WebhookBody(contentType, raw) == ExpressRaw(contentType, raw, ExpressJson(contentType, raw))

\* req.body.toString(): the text of a Buffer; "[object Object]" for an object;
\* the elements of an array joined by commas (here: its one string).
BodyToString(body) ==
    IF body.t = "buffer" THEN body.text
    ELSE IF body.t = "array" THEN body.elem
    ELSE NotJson

\* JSON.parse(text)
JSONParseThrows(text) == ~text.wf
JSONParse(text) == text.val

\* What the try block of the handler throws before its first await, if it does:
\* JSON.parse on a text that is not JSON, event.type of null, and the
\* destructuring of a session's absent metadata.
WebhookThrows(text) ==
    \/ JSONParseThrows(text)
    \/ JSONParse(text) = JNull
    \/ /\ JSONParse(text).t = "object"
       /\ JSONParse(text).obj.type = "checkout.session.completed"
       /\ JSONParse(text).obj.data.object.metadata = NoObj

IsCompleted(value) ==
    value.t = "object" /\ value.obj.type = "checkout.session.completed"

\* (mutant) the catch block acknowledges the notification.
WebhookCatch_Acknowledged(error) == Json(200, [received |-> TRUE])

\* The catch block of the handler.
WebhookCatch(error) == Text(400, "Webhook Error")

\* customerInfo of the handler.
CustomerInfo(customer, session) ==
    [name |-> Or(customer.name, Opt(session.customer_details, "name")),
     email |-> Or(customer.email, Opt(session.customer_details, "email")),
     address1 |-> Opt2(session.customer_details, "address", "line1"),
     city |-> Opt2(session.customer_details, "address", "city"),
     state |-> Opt2(session.customer_details, "address", "state"),
     country |-> Opt2(session.customer_details, "address", "country"),
     zip |-> Opt2(session.customer_details, "address", "postal_code")]

\* stripe.customers.retrieve(id): the customer, or an error (always an error
\* for an id that is null).
Customers == {[name |-> "Ann", email |-> "ann@x"], [name |-> Null, email |-> Null]}
CustomerOutcomes(id) ==
    {[ok |-> TRUE, customer |-> c] : c \in IF id = Null THEN {} ELSE Customers}
    \cup {[ok |-> FALSE, message |-> "No such customer"]}

WebhookStripe(r) ==
    \E in \in WebhookRequests :
        LET contentType == in.contentType
            raw == in.raw
            text == BodyToString(WebhookBody(contentType, raw))
        IN  /\ Free(r)
            /\ IF ExpressJson(contentType, raw).failed
               THEN /\ Start(r, "webhook", in, "done", [none |-> TRUE], <<>>,
                             Html(400, "SyntaxError"))
                    /\ UNCHANGED extVars
               ELSE IF WebhookThrows(text)
               THEN /\ Start(r, "webhook", in, "done", [none |-> TRUE], <<>>,
                             WebhookCatch(text))
                    /\ UNCHANGED extVars
               ELSE IF IsCompleted(JSONParse(text))
               THEN LET session == JSONParse(text).obj.data.object
                    IN  /\ Start(r, "webhook", in, "await_customer", [session |-> session],
                                 <<Call("stripe.customers.retrieve", [id |-> session.customer])>>,
                                 NoResp)
                        /\ notified' = notified \cup {session.id}
                        /\ UNCHANGED <<sessions, supplied, orders, nfiles>>
               ELSE /\ Start(r, "webhook", in, "done", [none |-> TRUE], <<>>,
                             Json(200, [received |-> TRUE]))
                    /\ UNCHANGED extVars

WebhookStripeCustomer(r) ==
    /\ kind[r] = "webhook" /\ pc[r] = "await_customer"
    /\ \E out \in CustomerOutcomes(locals[r].session.customer) :
        /\ IF out.ok
           THEN LET session == locals[r].session
                IN  Resume(r, out, "await_upload",
                           [imageUrl |-> session.metadata.imageUrl,
                            prompt |-> session.metadata.prompt,
                            customerInfo |-> CustomerInfo(out.customer, session),
                            sessionId |-> session.id, fileId |-> 0],
                           <<UploadCall(session.metadata.imageUrl)>>, NoResp)
           ELSE Resume(r, out, "done", locals[r], <<>>, WebhookCatch(out))
        /\ UNCHANGED extVars

\* The page as it is loaded: nothing typed, nothing clicked; src is what the
\* featured image shows before any artwork was generated.
CheckoutLabel == "Checkout"
CreateLabel == "Create"
NoClick == [clicked |-> FALSE]
PageLoaded(src) ==
    /\ featuredImage = [src |-> src]
    /\ promptInput = [value |-> <<>>]
    /\ checkoutBtn = [innerHTML |-> CheckoutLabel, disabled |-> FALSE]
    /\ checkoutPc = "idle"
    /\ checkoutLocals = [none |-> TRUE]
    /\ location = "/"
    /\ alerted = {}
    /\ lastClick = NoClick
    /\ createBtn = [textContent |-> CreateLabel, disabled |-> FALSE]
    /\ shuffleBtn = [textContent |-> "Shuffle", disabled |-> FALSE]
    /\ creates = <<>>
    /\ timers = <<>>
    /\ shuffling = NoObj
    /\ gallery = <<>>
    /\ generated = {}
    /\ nfetch = 0

\* The server after construction: no request received.
ServerStarted ==
    /\ kind = [r \in Slots |-> "none"]
    /\ pc = [r \in Slots |-> "idle"]
    /\ input = [r \in Slots |-> NoObj]
    /\ locals = [r \in Slots |-> [none |-> TRUE]]
    /\ calls = [r \in Slots |-> <<>>]
    /\ resp = [r \in Slots |-> NoResp]
    /\ sessions = <<>>
    /\ supplied = <<>>
    /\ orders = <<>>
    /\ notified = {}
    /\ nfiles = 0
    /\ nreq = 0

Init == PageLoaded("") /\ ServerStarted

Next ==
    \E r \in Slots :
        \/ GenerateImage(r)
        \/ GenerateImageReply(r)
        \/ GenerateVariation(r)
        \/ GenerateVariationReply(r)
        \/ CreateCheckoutSession(r)
        \/ CreateCheckoutSessionReply(r)
        \/ Success(r)
        \/ SuccessReply(r)
        \/ WebhookStripe(r)
        \/ WebhookStripeCustomer(r)
        \/ CreatePrintfulOrderRoute(r)
        \/ CreatePrintfulOrderRouteRetrieved(r)
        \/ CreatePrintfulOrderUploaded(r)
        \/ CreatePrintfulOrderOrdered(r)

Spec == Init /\ [][Next]_vars

\* ------------------------------------- createPrintfulOrder on any customer
\* createPrintfulOrder(imageUrl, prompt, customerInfo, sessionId) as a function
\* of customerInfo: the webhook handler has just called it for a session whose
\* customer details have each field absent (null), empty or present, and whose
\* customer has neither name nor email.
AbsentValues == {Null, ""}
RecipientDetails ==
    {[name |-> n, email |-> Null,
      address |-> [line1 |-> l, city |-> c, state |-> s, country |-> k, postal_code |-> z]] :
        n \in AbsentValues \cup {"Bob"}, l \in AbsentValues \cup {"1 Rd"},
        c \in AbsentValues \cup {"Reno"}, s \in AbsentValues \cup {"NV"},
        k \in AbsentValues \cup {"CA"}, z \in AbsentValues \cup {"89501"}}

InitRecipient ==
    \E details \in RecipientDetails :
        LET session == [id |-> "cs_1", metadata |-> Metadata1, customer |-> "cus_1",
                        customer_details |-> details]
            event == [type |-> "checkout.session.completed", data |-> [object |-> session]]
            customer == [name |-> Null, email |-> Null]
            Only(v, none) == [r \in Slots |-> IF r = 1 THEN v ELSE none]
        IN  /\ PageLoaded("")
            /\ kind = Only("webhook", "none")
            /\ pc = Only("await_upload", "idle")
            /\ input = Only([contentType |-> "application/json",
                             raw |-> JsonText(JArray(JsonText(JObject(event))))], NoObj)
            /\ locals = Only([imageUrl |-> session.metadata.imageUrl,
                              prompt |-> session.metadata.prompt,
                              customerInfo |-> CustomerInfo(customer, session),
                              sessionId |-> session.id, fileId |-> 0], [none |-> TRUE])
            /\ calls = Only(<<[api |-> "stripe.customers.retrieve", arg |-> [id |-> "cus_1"],
                               out |-> [ok |-> TRUE, customer |-> customer]],
                              UploadCall(session.metadata.imageUrl)>>, <<>>)
            /\ resp = Only(NoResp, NoResp)
            /\ sessions = <<>>
            /\ supplied = <<>>
            /\ orders = <<>>
            /\ notified = {"cs_1"}
            /\ nfiles = 0
            /\ nreq = 1

NextRecipient ==
    \E r \in Slots :
        \/ CreatePrintfulOrderUploaded(r)
        \/ CreatePrintfulOrderOrdered(r)

SpecRecipient == InitRecipient /\ [][NextRecipient]_vars

\* ------------------------------------------- the page: handleStripeCheckout
\* The text of the prompt input is a sequence of characters, a space or a letter.
Chars == {" ", "a"}
InputValues == UNION {[1..n -> Chars] : n \in 0..MaxInputLen}

\* String.prototype.trim()
RECURSIVE TrimStart(_)
TrimStart(s) == IF s # <<>> /\ Head(s) = " " THEN TrimStart(Tail(s)) ELSE s
RECURSIVE TrimEnd(_)
TrimEnd(s) ==
    IF s # <<>> /\ s[Len(s)] = " " THEN TrimEnd(SubSeq(s, 1, Len(s) - 1)) ELSE s
Trim(s) == TrimEnd(TrimStart(s))

\* The user edits the prompt input (or a gallery item or the shuffle button
\* fills it in).
TypePrompt ==
    /\ location = "/"
    /\ \E v \in InputValues \ {promptInput.value} : promptInput' = [value |-> v]
    /\ UNCHANGED <<featuredImage, checkoutBtn, checkoutPc, checkoutLocals, location,
                   alerted, lastClick>>
    /\ UNCHANGED <<serverVars, studioVars>>

\* A generated image or a variation arrives: featuredImage.src = data.imageUrl.
FeaturedImages == GeneratedUrls
ShowImage ==
    /\ location = "/"
    /\ \E url \in FeaturedImages \ {featuredImage.src} : featuredImage' = [src |-> url]
    /\ UNCHANGED <<promptInput, checkoutBtn, checkoutPc, checkoutLocals, location,
                   alerted, lastClick>>
    /\ UNCHANGED <<serverVars, studioVars>>

\* (mutant) the handler gives up only when both are missing.
NoArtwork_Both(src, currentPrompt) == Falsy(src) /\ currentPrompt = <<>>

\* if (!featuredImage.src || !currentPrompt)
NoArtwork(src, currentPrompt) == Falsy(src) \/ currentPrompt = <<>>

CreatingCheckout == "Creating Checkout..."

\* A click on the checkout button (a disabled button gets no click): the
\* handler runs to its return or to its fetch.
HandleStripeCheckout ==
    /\ location = "/" /\ ~checkoutBtn.disabled
    /\ LET currentPrompt == Trim(promptInput.value)
       IN  IF NoArtwork(featuredImage.src, currentPrompt)
           THEN /\ alerted' = alerted \cup {"Please generate an artwork first"}
                /\ lastClick' = [clicked |-> TRUE, src |-> featuredImage.src,
                                 value |-> promptInput.value, before |-> checkoutBtn,
                                 after |-> checkoutBtn, sent |-> FALSE, result |-> "none"]
                /\ UNCHANGED <<checkoutBtn, checkoutPc, checkoutLocals>>
           ELSE /\ checkoutLocals' =
                    [originalText |-> checkoutBtn.innerHTML,
                     request |-> [url |-> "/api/create-checkout-session",
                                  body |-> [imageUrl |-> featuredImage.src,
                                            prompt |-> currentPrompt]]]
                /\ checkoutBtn' = [innerHTML |-> CreatingCheckout, disabled |-> TRUE]
                /\ checkoutPc' = "await_fetch"
                /\ lastClick' = [clicked |-> TRUE, src |-> featuredImage.src,
                                 value |-> promptInput.value, before |-> checkoutBtn,
                                 after |-> checkoutBtn', sent |-> TRUE, result |-> "pending"]
                /\ UNCHANGED alerted
    /\ UNCHANGED <<featuredImage, promptInput, location>>
    /\ UNCHANGED <<serverVars, studioVars>>

\* What the fetch and response.json() give: the server's {url} or {error}, a
\* body with neither, or a rejection.
FetchOutcomes ==
    {[ok |-> TRUE, data |-> [url |-> "https://checkout.stripe.com/cs_1", error |-> Undefined]],
     [ok |-> TRUE, data |-> [url |-> Undefined, error |-> "Invalid URL"]],
     [ok |-> TRUE, data |-> [url |-> Undefined, error |-> Undefined]],
     [ok |-> FALSE, message |-> "Failed to fetch"]}

\* The handler resumes with the response: it navigates to data.url, or its
\* catch block alerts and resets the button.
HandleStripeCheckoutResponse ==
    /\ checkoutPc = "await_fetch"
    /\ \E out \in FetchOutcomes :
        IF out.ok /\ ~Falsy(out.data.url)
        THEN /\ location' = out.data.url
             /\ checkoutPc' = "navigated"
             /\ lastClick' = [lastClick EXCEPT !.result = "redirected"]
             /\ UNCHANGED <<checkoutBtn, alerted>>
        ELSE LET message == IF out.ok THEN Or(out.data.error, "Failed to create checkout session")
                                      ELSE out.message
             IN  /\ alerted' = alerted \cup {"Error: " \o message}
                 /\ checkoutBtn' = [innerHTML |-> checkoutLocals.originalText,
                                    disabled |-> FALSE]
                 /\ checkoutPc' = "idle"
                 /\ lastClick' = [lastClick EXCEPT !.result = "failed"]
                 /\ UNCHANGED location
    /\ UNCHANGED <<featuredImage, promptInput, checkoutLocals>>
    /\ UNCHANGED <<serverVars, studioVars>>

\* The featured image of the page as loaded has a source or has none.
LoadedImages == {"", "u0"}
InitPage == ServerStarted /\ \E src \in LoadedImages : PageLoaded(src)

NextPage ==
    \/ TypePrompt
    \/ ShowImage
    \/ HandleStripeCheckout
    \/ HandleStripeCheckoutResponse

SpecPage == InitPage /\ [][NextPage]_vars

\* ------------------------------------ the page: handleCreate and shuffle
\* A text is a sequence of pieces: a piece is one character, or a longer
\* run of text that neither begins nor ends with a space.
ImageNames == <<"g1", "g2", "g3", "g4">>
checkoutFields == <<featuredImage, checkoutBtn, checkoutPc, checkoutLocals, location, lastClick>>

\* list[Math.floor(Math.random() * list.length)]: the indexes it may give.
Picks(list) == {i \in DOMAIN list : i <= MaxPicks}

\* The prompts the shuffle button picks from when the input is empty.
prompts ==
    << "abstract geometric patterns in vibrant colors",
       "serene mountain landscape at sunset",
       "futuristic cityscape with neon lights",
       "peaceful garden with blooming flowers",
       "cosmic nebula with swirling galaxies",
       "vintage coffee shop on a rainy day" >>

\* handleCreate() when the prompt input holds value: it returns after an
\* alert (which changes nothing on the page), or captures the button's label, shows the loading state and sends
\* the generation request.
HandleCreate(value) ==
    LET prompt == Trim(value)
    IN  IF prompt = <<>>
        THEN UNCHANGED <<createBtn, creates, nfetch>>
        ELSE /\ nfetch < MaxGenerations
             /\ creates' = Append(creates, [prompt |-> prompt,
                                            originalText |-> createBtn.textContent])
             /\ createBtn' = [textContent |-> "Creating...", disabled |-> TRUE]
             /\ nfetch' = nfetch + 1

\* A click on the create button (a disabled button gets no click).
ClickCreate ==
    /\ location = "/" /\ ~createBtn.disabled
    /\ HandleCreate(promptInput.value)
    /\ UNCHANGED <<promptInput, alerted, shuffleBtn, timers, shuffling, gallery, generated>>
    /\ UNCHANGED <<checkoutFields, serverVars>>

\* The Enter key in the prompt input.
PressEnter ==
    /\ location = "/"
    /\ HandleCreate(promptInput.value)
    /\ UNCHANGED <<promptInput, alerted, shuffleBtn, timers, shuffling, gallery, generated>>
    /\ UNCHANGED <<checkoutFields, serverVars>>

\* A click on an item of the gallery: its prompt is put into the input.
ClickGalleryItem ==
    /\ location = "/"
    /\ \E i \in DOMAIN gallery :
        /\ promptInput' = [value |-> gallery[i].prompt]
        /\ HandleCreate(gallery[i].prompt)
    /\ UNCHANGED <<alerted, shuffleBtn, timers, shuffling, gallery, generated>>
    /\ UNCHANGED <<checkoutFields, serverVars>>

\* A click on the shuffle button: a variation of the prompt in the input is
\* requested, or, if there is none, one of the fixed prompts is created.
ClickShuffle ==
    /\ location = "/" /\ ~shuffleBtn.disabled
    /\ LET currentPrompt == Trim(promptInput.value)
       IN  IF currentPrompt # <<>>
           THEN /\ nfetch < MaxGenerations
                /\ shuffleBtn' = [textContent |-> "Shuffling...", disabled |-> TRUE]
                /\ shuffling' = [basePrompt |-> currentPrompt]
                /\ nfetch' = nfetch + 1
                /\ UNCHANGED <<promptInput, createBtn, creates>>
           ELSE /\ \E i \in Picks(prompts) :
                    /\ promptInput' = [value |-> <<prompts[i]>>]
                    /\ HandleCreate(<<prompts[i]>>)
                /\ UNCHANGED <<shuffleBtn, shuffling>>
    /\ UNCHANGED <<alerted, timers, gallery, generated>>
    /\ UNCHANGED <<checkoutFields, serverVars>>

\* addToRecentlyGenerated(imageUrl, prompt)
AddToRecentlyGenerated(imageUrl, prompt) ==
    LET items == <<[imageUrl |-> imageUrl, prompt |-> prompt]>> \o gallery
    IN  IF Len(items) > 6 THEN SubSeq(items, 1, 6) ELSE items

\* The image a generation request gets: each has its own URL.
NewImage == ImageNames[Cardinality(generated) + 1]

\* What the fetch of a generation and response.json() give: the server's
\* success, or a failure (its {error}, where data.success is absent, or a
\* rejection: both end in the handler's catch block, which alerts).
GenerationOutcomes ==
    {[ok |-> TRUE, data |-> [success |-> TRUE]], [ok |-> FALSE]}

Without(seq, i) == SubSeq(seq, 1, i - 1) \o SubSeq(seq, i + 1, Len(seq))

\* An invocation of handleCreate resumes with its response, in whatever order
\* the responses arrive, and runs to the end: its finally block sets the timer.
HandleCreateResponse ==
    /\ location = "/"
    /\ \E i \in DOMAIN creates, out \in GenerationOutcomes :
        /\ IF out.ok /\ out.data.success
           THEN /\ featuredImage' = [src |-> NewImage]
                /\ createBtn' = [createBtn EXCEPT !.textContent = "Created!"]
                /\ gallery' = AddToRecentlyGenerated(NewImage, creates[i].prompt)
                /\ generated' = generated \cup
                                    {[imageUrl |-> NewImage, prompt |-> creates[i].prompt]}
           ELSE /\ createBtn' = [createBtn EXCEPT !.textContent = "Try Again"]
                /\ UNCHANGED <<featuredImage, gallery, generated>>
        /\ timers' = Append(timers, creates[i].originalText)
        /\ creates' = Without(creates, i)
    /\ UNCHANGED <<promptInput, alerted, shuffleBtn, shuffling, nfetch>>
    /\ UNCHANGED <<checkoutBtn, checkoutPc, checkoutLocals, location, lastClick, serverVars>>

\* setTimeout(() => {...}, 3000): the timers have one delay, so they fire in
\* the order they were set.
ResetCreateButton ==
    /\ location = "/" /\ timers # <<>>
    /\ createBtn' = [textContent |-> Head(timers), disabled |-> FALSE]
    /\ timers' = Tail(timers)
    /\ UNCHANGED <<promptInput, alerted, shuffleBtn, creates, shuffling, gallery, generated,
                   nfetch>>
    /\ UNCHANGED <<checkoutFields, serverVars>>

\* The shuffle handler resumes with the response of generate-variation, whose
\* prompt is the base prompt, ", " and one of the server's clauses.
ShuffleResponse ==
    /\ location = "/" /\ shuffling # NoObj
    /\ \E out \in GenerationOutcomes :
        IF out.ok /\ out.data.success
        THEN \E i \in Picks(variations) :
                LET prompt == shuffling.basePrompt \o <<", " \o variations[i]>>
                IN  /\ featuredImage' = [src |-> NewImage]
                    /\ promptInput' = [value |-> prompt]
                    /\ gallery' = AddToRecentlyGenerated(NewImage, prompt)
                    /\ generated' = generated \cup {[imageUrl |-> NewImage, prompt |-> prompt]}
        ELSE UNCHANGED <<featuredImage, promptInput, gallery, generated>>
    /\ shuffleBtn' = [textContent |-> "Shuffle", disabled |-> FALSE]
    /\ shuffling' = NoObj
    /\ UNCHANGED <<alerted, createBtn, creates, timers, nfetch>>
    /\ UNCHANGED <<checkoutBtn, checkoutPc, checkoutLocals, location, lastClick, serverVars>>

InitStudio == ServerStarted /\ \E src \in LoadedImages : PageLoaded(src)

NextStudio ==
    \/ TypePrompt
    \/ ClickCreate
    \/ PressEnter
    \/ ClickGalleryItem
    \/ ClickShuffle
    \/ HandleCreateResponse
    \/ ResetCreateButton
    \/ ShuffleResponse
    \/ HandleStripeCheckout
    \/ HandleStripeCheckoutResponse

SpecStudio == InitStudio /\ [][NextStudio]_vars

\* =================================================================== claims
Done(r) == pc[r] = "done"
Received == Json(200, [received |-> TRUE])

\* The calls of request r to one endpoint.
CallsTo(r, api) == {i \in DOMAIN calls[r] : calls[r][i].api = api}
\* The endpoints request r has called, in order.
Apis(r) == [i \in DOMAIN calls[r] |-> calls[r][i].api]
\* A call of request r to a fulfillment endpoint failed.
FulfillmentFailed(r) ==
    \E i \in DOMAIN calls[r] :
        /\ calls[r][i].api \in {"printful.files", "printful.orders"}
        /\ calls[r][i].out # Pending
        /\ ~calls[r][i].out.ok

\* The request carries a notification as the payment capability sends it: the
\* JSON text of an event object.
IsNotification(in) == in.raw.wf /\ in.raw.val.t = "object"
SentEvent(in) == in.raw.val.obj
IsCompletedNotification(in) ==
    IsNotification(in) /\ SentEvent(in).type = "checkout.session.completed"

\* The value the handler gets from JSON.parse(req.body.toString()).
ParsedText(in) == BodyToString(WebhookBody(in.contentType, in.raw))

\* C1: a generate-image request whose prompt is empty or only whitespace is
\* answered 400 and makes no call to the synthesis capability.
BlankPrompts == {"", " "}
C1_BlankPromptRejected ==
    \A r \in Slots :
        (kind[r] = "generate-image" /\ input[r].prompt \in BlankPrompts)
            => /\ calls[r] = <<>>
               /\ Done(r) => resp[r].status = 400

\* C2: for a completed notification whose metadata resolves, the webhook handler
\* has issued, when it responds, exactly one upload call followed by exactly
\* one order-creation call.
C2_OneUploadThenOneOrder ==
    \A r \in Slots :
        (/\ kind[r] = "webhook" /\ Done(r)
         /\ IsCompletedNotification(input[r])
         /\ SentEvent(input[r]).data.object.metadata # NoObj)
            => SelectSeq(Apis(r), LAMBDA a : a \in {"printful.files", "printful.orders"})
                   = <<"printful.files", "printful.orders">>

\* C3: when the upload call or the order-creation call of a webhook request
\* fails, the handler still answers 200 {received: true}, and the failed call is
\* its last call: it is not issued again and nothing follows it.
C3_FulfillmentFailureAcknowledged ==
    \A r \in Slots :
        (kind[r] = "webhook" /\ Done(r) /\ FulfillmentFailed(r))
            => /\ resp[r] = Received
               /\ Cardinality(CallsTo(r, "printful.files")) <= 1
               /\ Cardinality(CallsTo(r, "printful.orders")) <= 1
               /\ ~calls[r][Len(calls[r])].out.ok

C3_Witness ==
    \E r \in Slots :
        /\ kind[r] = "webhook" /\ Done(r) /\ FulfillmentFailed(r)
        /\ calls[r][Len(calls[r])].api = "printful.orders"

\* C4: the webhook handler answers 200 {received: true} to every request whose
\* body can be parsed, and 400 only to a body that cannot.
C4_ParsableAcknowledged ==
    \A r \in Slots :
        (kind[r] = "webhook" /\ Done(r))
            => /\ input[r].raw.wf => resp[r] = Received
               /\ resp[r].status = 400 => ~input[r].raw.wf

\* C5: a notification of another event kind leads to no customer lookup, no
\* upload and no order, and is acknowledged with {received: true}.
C5_OtherKindsAcknowledged ==
    \A r \in Slots :
        (/\ kind[r] = "webhook"
         /\ IsNotification(input[r])
         /\ SentEvent(input[r]).type # "checkout.session.completed")
            => /\ calls[r] = <<>>
               /\ Done(r) => resp[r] = Received

\* C6: a webhook request whose body is malformed is answered 400 with an error
\* message, and issues no upload call and no order-creation call.
C6_MalformedRejected ==
    \A r \in Slots :
        (kind[r] = "webhook" /\ ~input[r].raw.wf)
            => /\ Done(r)
               /\ resp[r].status = 400
               /\ resp[r].type \in {"text", "html"} /\ resp[r].body # ""
               /\ calls[r] = <<>>

C6_Witness ==
    \E r \in Slots :
        /\ kind[r] = "webhook" /\ Done(r) /\ ~input[r].raw.wf
        /\ input[r].contentType = "text/plain"
        /\ resp[r] = WebhookCatch(NotJson)

\* C7: a session created with a non-empty imageUrl and prompt reads back, by the
\* confirmation read and by the manual fulfillment trigger, with exactly the
\* imageUrl and prompt supplied at its creation.
SuppliedBoth(id) ==
    /\ id \in DOMAIN supplied
    /\ ~Falsy(supplied[id].imageUrl) /\ ~Falsy(supplied[id].prompt)

C8_CheckoutGuarded ==
    \A r \in Slots :
        (/\ kind[r] = "create-checkout-session"
         /\ (Falsy(input[r].imageUrl) \/ Falsy(input[r].prompt)))
            => /\ calls[r] = <<>>
               /\ Done(r) => resp[r].status = 400

\* C9: an order-creation call carrying a session id occurs only after a
\* completed notification for that session has been received.
C9_OrderOnlyAfterNotification ==
    \A i \in DOMAIN orders : orders[i] \in notified

\* C9, amended: an order-creation call carrying a session id is issued only by
\* the webhook handler for the completed notification of that session that it
\* handles, or by the manual fulfillment trigger for the session it was given
\* and has retrieved from the payment capability.
C9_OrderFromNotificationOrManual ==
    /\ \A i \in DOMAIN orders : orders[i] \in notified \cup DOMAIN sessions
    /\ \A r \in Slots : \A i \in CallsTo(r, "printful.orders") :
        \/ /\ kind[r] = "webhook"
           /\ ~JSONParseThrows(ParsedText(input[r]))
           /\ IsCompleted(JSONParse(ParsedText(input[r])))
           /\ JSONParse(ParsedText(input[r])).obj.data.object.id = calls[r][i].arg.external_id
           /\ calls[r][i].arg.external_id \in notified
        \/ /\ kind[r] = "create-printful-order"
           /\ calls[r][i].arg.external_id = input[r].sessionId
           /\ Exists(input[r].sessionId)
           /\ calls[r][1].api = "stripe.checkout.sessions.retrieve" /\ calls[r][1].out.ok

C9_Witness ==
    \E r \in Slots :
        /\ kind[r] = "create-printful-order"
        /\ CallsTo(r, "printful.orders") # {}
        /\ input[r].sessionId \notin notified

\* C10: at both generation entry points a provider failure with status 429 is
\* answered 429, one with status 400 is answered 400, and any other is
\* answered 500.
MappedStatus(status) == IF status \in {429, 400} THEN status ELSE 500
C10_ErrorMapping ==
    \A r \in Slots :
        (/\ kind[r] \in {"generate-image", "generate-variation"} /\ Done(r)
         /\ calls[r] # <<>> /\ ~calls[r][1].out.ok)
            => resp[r].status = MappedStatus(calls[r][1].out.status)

\* C11: a successful generate-variation request returns the prompt it sent to
\* the synthesis capability, and that prompt is basePrompt, ", " and one of the
\* six fixed clauses.
C11_VariationPrompt ==
    \A r \in Slots :
        (kind[r] = "generate-variation" /\ Done(r) /\ resp[r].status = 200)
            => /\ resp[r].body.prompt = calls[r][1].arg.prompt
               /\ \E i \in 1..6 :
                    resp[r].body.prompt = input[r].basePrompt \o ", " \o variations[i]

C11_Witness ==
    \E r \in Slots :
        /\ kind[r] = "generate-variation" /\ Done(r) /\ resp[r].status = 200
        /\ resp[r].body.prompt = "fox, with different mood"

\* C12: a confirmation read whose session cannot be retrieved is redirected to
\* the home page; one whose session is retrieved renders the confirmation with
\* the prompt and imageUrl of that session's metadata.
C12_ConfirmationRead ==
    \A r \in Slots :
        (kind[r] = "success" /\ Done(r))
            => IF calls[r][1].out.ok
               THEN /\ resp[r].status = 200 /\ resp[r].type = "html"
                    /\ resp[r].body.page = "confirmation"
                    /\ resp[r].body.prompt = Interpolate(sessions[input[r].session_id].prompt)
                    /\ resp[r].body.imageUrl = Interpolate(sessions[input[r].session_id].imageUrl)
               ELSE resp[r] = [sent |-> TRUE, status |-> 302, type |-> "redirect", body |-> "/"]

C12_Witness ==
    \E r \in Slots :
        /\ kind[r] = "success" /\ Done(r) /\ ~calls[r][1].out.ok
        /\ Exists(input[r].session_id)

\* C13: the manual fulfillment trigger uploads the imageUrl of the stored
\* metadata, orders with the fixed placeholder recipient, and answers
\* {success: true, orderId} exactly when retrieval, upload and order creation
\* all succeeded; after a failure it answers 500 {error}.
PlaceholderRecipient ==
    [name |-> "Test Customer", address1 |-> "123 Test Street", city |-> "Test City",
     state_code |-> "NY", country_code |-> "US", zip |-> "10001"]
AllSucceeded(r) ==
    /\ Apis(r) = <<"stripe.checkout.sessions.retrieve", "printful.files", "printful.orders">>
    /\ \A i \in DOMAIN calls[r] : calls[r][i].out.ok

C13_ManualTrigger ==
    \A r \in Slots :
        kind[r] = "create-printful-order"
            => /\ \A i \in CallsTo(r, "printful.files") :
                    /\ i = 2 /\ calls[r][1].out.ok
                    /\ calls[r][i].arg.url = sessions[input[r].sessionId].imageUrl
               /\ \A i \in CallsTo(r, "printful.orders") :
                    /\ i = 3 /\ calls[r][2].out.ok
                    /\ calls[r][i].arg.recipient = PlaceholderRecipient
                    /\ calls[r][i].arg.items[1].files[1].id = calls[r][2].out.id
               /\ Done(r) =>
                    IF AllSucceeded(r)
                    THEN resp[r] = Json(200, [success |-> TRUE, orderId |-> calls[r][3].out.id])
                    ELSE /\ ~calls[r][Len(calls[r])].out.ok
                         /\ resp[r] = Json(500, [error |-> calls[r][Len(calls[r])].out.message])

C13_Witness ==
    \E r \in Slots :
        /\ kind[r] = "create-printful-order" /\ Done(r) /\ AllSucceeded(r)
        /\ resp[r].body.success

\* C14: each of the six recipient fields of an order equals the customer
\* information's value when that is present and non-empty and the fixed
\* placeholder otherwise, field by field; an order call follows every
\* successful upload whatever the customer information lacks.
RecipientPlaceholders ==
    [name |-> "PICASO Customer", address1 |-> "123 Main St", city |-> "New York",
     state_code |-> "NY", country_code |-> "US", zip |-> "10001"]
RecipientSources ==
    [name |-> "name", address1 |-> "address1", city |-> "city",
     state_code |-> "state", country_code |-> "country", zip |-> "zip"]
IsMissing(v) == v \in {Undefined, Null, ""}

C14_RecipientDefaults ==
    \A r \in Slots :
        IsFulfilling(r) =>
            /\ \A i \in CallsTo(r, "printful.orders") :
                LET given == locals[r].customerInfo
                    recipient == calls[r][i].arg.recipient
                IN  /\ DOMAIN recipient = DOMAIN RecipientPlaceholders
                    /\ \A f \in DOMAIN RecipientPlaceholders :
                        recipient[f] = IF IsMissing(given[RecipientSources[f]])
                                       THEN RecipientPlaceholders[f]
                                       ELSE given[RecipientSources[f]]
            /\ \A i \in CallsTo(r, "printful.files") :
                (calls[r][i].out # Pending /\ calls[r][i].out.ok)
                    => CallsTo(r, "printful.orders") # {}

C14_Witness ==
    \E r \in Slots :
        /\ kind[r] = "webhook"
        /\ \E i \in CallsTo(r, "printful.orders") :
            calls[r][i].arg.recipient =
                [name |-> "PICASO Customer", address1 |-> "1 Rd", city |-> "New York",
                 state_code |-> "NV", country_code |-> "US", zip |-> "89501"]

\* C15: in the webhook handler the customer's name comes from the looked-up
\* customer when it has one and from the session's customer details otherwise,
\* and a customer lookup that fails (or has no customer to look up) does not
\* stop the handler: it still goes on to the upload.
LookedUp(r) ==
    /\ kind[r] = "webhook"
    /\ CallsTo(r, "stripe.customers.retrieve") = {1}
    /\ calls[r][1].out # Pending
C15_CustomerFallback ==
    \A r \in Slots :
        LookedUp(r) =>
            IF calls[r][1].out.ok
            THEN LET customer == calls[r][1].out.customer
                     details == JSONParse(ParsedText(input[r])).obj.data.object.customer_details
                 IN  locals[r].customerInfo.name =
                        IF ~IsMissing(customer.name) THEN customer.name
                        ELSE IF details = NoObj THEN Undefined ELSE details.name
            ELSE CallsTo(r, "printful.files") # {}

\* C16: the upload of a completed notification is given the imageUrl of that
\* notification's session metadata; the order's single line item carries the
\* single file whose id that upload returned, and the order's external_id is
\* that notification's session id.
NotifiedSession(r) == JSONParse(ParsedText(input[r])).obj.data.object
C17_GenericCheckoutFailure ==
    \A r \in Slots :
        (kind[r] = "create-checkout-session" /\ Done(r)) =>
            IF calls[r][1].out.ok
            THEN resp[r] = Json(200, [url |-> "https://checkout.stripe.com/" \o calls[r][1].out.id])
            ELSE /\ resp[r].status = 500
                 /\ resp[r].body.error # calls[r][1].out.message

\* C19: a request calls each external endpoint at most once, and a call that
\* failed is the last call of its request: no second attempt, and no order
\* call after a failed upload.
ExternalApis ==
    {"openai.images.generate", "stripe.checkout.sessions.create",
     "stripe.checkout.sessions.retrieve", "stripe.customers.retrieve",
     "printful.files", "printful.orders"}
C19_NoRetry ==
    \A r \in Slots :
        /\ \A i \in DOMAIN calls[r] : calls[r][i].api \in ExternalApis
        /\ \A api \in ExternalApis : Cardinality(CallsTo(r, api)) <= 1
        /\ \A i \in DOMAIN calls[r] :
            (calls[r][i].out # Pending /\ ~calls[r][i].out.ok)
                => (i = Len(calls[r]) /\ Done(r))

C19_Witness ==
    \E r \in Slots :
        /\ Done(r)
        /\ CallsTo(r, "printful.files") # {}
        /\ CallsTo(r, "printful.orders") = {}
        /\ ~calls[r][Len(calls[r])].out.ok

\* C20: a click on the checkout button sends the create-checkout-session
\* request exactly when the featured image has a source and the prompt input
\* holds a character that is not a space; a click that sends nothing leaves the
\* button as it was; after a request that failed the button has the label it
\* had before the click and is enabled.
HasText(value) == \E i \in DOMAIN value : value[i] # " "
C20_CheckoutPrecondition ==
    lastClick.clicked =>
        /\ lastClick.sent <=> (lastClick.src # "" /\ HasText(lastClick.value))
        /\ ~lastClick.sent => (lastClick.after = lastClick.before /\ checkoutPc = "idle")
        /\ lastClick.sent /\ lastClick.result = "pending" =>
                /\ checkoutPc = "await_fetch"
                /\ checkoutLocals.request.body.imageUrl = lastClick.src
                /\ HasText(checkoutLocals.request.body.prompt)
        /\ lastClick.result = "failed" =>
                checkoutBtn = [innerHTML |-> lastClick.before.innerHTML, disabled |-> FALSE]

C20_Witness ==
    /\ lastClick.clicked /\ ~lastClick.sent
    /\ lastClick.src # "" /\ lastClick.value = <<" ">>
    /\ "Error: Invalid URL" \in alerted
    /\ checkoutBtn = [innerHTML |-> "Checkout", disabled |-> FALSE]

\* C21: for a notification sent with a JSON content type, the value the webhook
\* handler parses is the event that was sent, and a completed notification
\* (one that carries metadata) gets as far as the customer lookup.
C21_PayloadParsedAsSent ==
    \A r \in Slots :
        (kind[r] = "webhook" /\ input[r].contentType = "application/json"
            /\ IsNotification(input[r]))
            => /\ ~JSONParseThrows(ParsedText(input[r]))
               /\ JSONParse(ParsedText(input[r])) = input[r].raw.val
               /\ (IsCompletedNotification(input[r])
                        /\ SentEvent(input[r]).data.object.metadata # NoObj)
                    => CallsTo(r, "stripe.customers.retrieve") # {}

\* C22: no two order-creation calls carry the same external_id.
C22_OneOrderPerSession ==
    \A i, j \in DOMAIN orders : i # j => orders[i] # orders[j]

\* C23: a confirmation read of a retrievable session that is not paid does not
\* render the confirmation page.
C23_ConfirmationOnlyWhenPaid ==
    \A r \in Slots :
        (kind[r] = "success" /\ Done(r) /\ calls[r][1].out.ok
            /\ calls[r][1].out.payment_status # "paid")
            => ~(resp[r].type = "html" /\ resp[r].body.page = "confirmation")

\* C24: once no invocation of handleCreate awaits its response and no reset
\* timer is pending, the create button is enabled and shows its original label.
C24_CreateButtonRestored ==
    (creates = <<>> /\ timers = <<>>)
        => createBtn = [textContent |-> "Create", disabled |-> FALSE]

\* C25: the prompt sent to create-checkout-session is the prompt of the
\* generation that produced the image sent with it.
C25_CheckoutPairFromOneGeneration ==
    (lastClick.clicked /\ lastClick.sent) =>
        \A g \in generated :
            g.imageUrl = checkoutLocals.request.body.imageUrl
                => g.prompt = checkoutLocals.request.body.prompt
====
